---- MODULE Spec2Model ----
(***************************************************************************)
(* Model of saveole/2026: the issue-tracker adapter (src/github_client.py), *)
(* the sleep-source adapter (src/garmin_client.py), the formatter           *)
(* (src/formatter.py) and the two command-line flows                        *)
(* (scripts/quick_note.py, scripts/fetch_and_post.py).                      *)
(*                                                                         *)
(* Text is modelled as a sequence of tokens.  A token is a string that is  *)
(* matched as a whole: a date token is exactly ten characters of the shape *)
(* dddd-dd-dd, ":" and " " are single characters, every other token holds  *)
(* no date followed by a colon.  Substring and regex search are computed   *)
(* on the token sequence.                                                  *)
(***************************************************************************)
EXTENDS Integers, Sequences, FiniteSets, TLC

VARIABLES
    comments,   \* the target issue's comments at the tracker, oldest first
    issues,     \* issues created at the tracker during the run
    clock,      \* index of the wall-clock reading the next footer gets
    ncalls,     \* client calls and script runs started so far
    pc,         \* pc[p]: position of caller p
    call,       \* call[p]: the arguments of p's current client call
    ret,        \* ret[p]: how p's current client call ended
    log,        \* log[p]: the tracker/service operations p has invoked
    seen,       \* seen[p]: what the comment listing answered to p
    posted,     \* posted[p]: the text p handed to create_comment
    cli,        \* cli[p]: command line and environment of p's script run
    loc,        \* loc[p]: locals of p's script run
    exit,       \* exit[p]: the script's exit code, NoExit while running
    stdout      \* stdout[p]: the lines the script printed

vars == <<comments, issues, clock, ncalls, pc, call, ret, log, seen, posted,
          cli, loc, exit, stdout>>

----------------------------------------------------------------------------
(* Bounds of the model *)

MaxInitComments == 11   \* comments on the issue before the run
MaxCalls == 1           \* client calls (or script runs) made one after the other
MaxAdapterCalls == 2    \* method calls made on one GarminClient
MaxSeqCalls == 3        \* post_comment calls of one sequential caller

----------------------------------------------------------------------------
(* Sequences and text *)

Min(S) == CHOOSE x \in S : \A y \in S : x <= y

\* s[:n] of Python
Take(s, n) == SubSeq(s, 1, IF Len(s) < n THEN Len(s) ELSE n)

\* sub in text
Contains(text, sub) ==
    \E i \in 0..(Len(text) - Len(sub)) : SubSeq(text, i + 1, i + Len(sub)) = sub

\* sep.join(parts), parts a sequence of texts
RECURSIVE Join(_, _)
Join(parts, sep) ==
    IF parts = <<>> THEN <<>>
    ELSE IF Len(parts) = 1 THEN parts[1]
    ELSE parts[1] \o sep \o Join(Tail(parts), sep)

----------------------------------------------------------------------------
(* Calendar and clock, as datetime computes them *)

Pad2(n) == IF n < 10 THEN "0" \o ToString(n) ELSE ToString(n)
Pad4(n) ==
    IF n < 10 THEN "000" \o ToString(n)
    ELSE IF n < 100 THEN "00" \o ToString(n)
    ELSE IF n < 1000 THEN "0" \o ToString(n)
    ELSE ToString(n)

\* date.isoformat()
IsoDate(d) == Pad4(d.y) \o "-" \o Pad2(d.m) \o "-" \o Pad2(d.d)

IsLeap(y) == (y % 4 = 0 /\ y % 100 # 0) \/ y % 400 = 0

\* calendar.monthrange(y, m)[1]
DaysInMonth(y, m) ==
    IF m = 2 THEN (IF IsLeap(y) THEN 29 ELSE 28)
    ELSE IF m \in {4, 6, 9, 11} THEN 30
    ELSE 31

\* the proleptic Gregorian date n days after 1970-01-01
CivilFromDays(n) ==
    LET z == n + 719468
        era == z \div 146097
        doe == z - era * 146097
        yoe == (doe - doe \div 1460 + doe \div 36524 - doe \div 146096) \div 365
        doy == doe - (365 * yoe + yoe \div 4 - yoe \div 100)
        mp == (5 * doy + 2) \div 153
        mm == IF mp < 10 THEN mp + 3 ELSE mp - 9
    IN  [y |-> yoe + era * 400 + (IF mm <= 2 THEN 1 ELSE 0),
         m |-> mm,
         d |-> doy - (153 * mp + 2) \div 5 + 1]

\* the day the scripts run, and the days sleep records fall on
Today == [y |-> 2026, m |-> 11, d |-> 2]
ModelDays == {[y |-> 2026, m |-> 1, d |-> k] : k \in 5..7} \cup {Today}

\* the tokens that are dates
Dates == {IsoDate(x) : x \in ModelDays}

\* the search matching a date without its colon
DateMatchAt_BareDate(body) ==
    LET I == {i \in 1..Len(body) : body[i] \in Dates}
    IN  IF I = {} THEN 0 ELSE Min(I)

\* position of the first match of \d{4}-\d{2}-\d{2}: in body, 0 when none
DateMatchAt(body) ==
    LET I == {i \in 1..(Len(body) - 1) : body[i] \in Dates /\ body[i + 1] = ":"}
    IN  IF I = {} THEN 0 ELSE Min(I)

\* date_match.group(0)
DatePrefix(body) == <<body[DateMatchAt(body)], ":">>

----------------------------------------------------------------------------
(* GitHubClient: the pure parts *)

RepoName == "saveole/2026"
IssueNumbers == {1, 999}
IntStr(n) == IF n = 1 THEN "1" ELSE "999"

\* the statuses a tracker round trip can end with: 200 is success, 401, 404
\* and 500 are GithubException statuses, 0 stands for an exception of the
\* transport that is no GithubException
Responses == {0, 200, 401, 404, 500}
ApiFailures == {401, 404, 500}

WindowSize == 10

\* the parameters post_comment declares besides self
PostCommentParams == {"issue_number", "body", "metadata"}

\* the methods class GitHubClient defines
GitHubClientMethods ==
    {"__init__", "post_comment", "_is_duplicate", "_add_metadata_footer",
     "verify_issue_exists", "from_env"}

\* str(e) of a GithubException
ExcStr(status) ==
    IF status = 401 THEN "401 Bad credentials"
    ELSE IF status = 404 THEN "404 Not Found"
    ELSE "500 Server Error"

NoResult == [kind |-> "none", val |-> FALSE, exc |-> "", msg |-> <<>>]
Return(v) == [kind |-> "return", val |-> v, exc |-> "", msg |-> <<>>]
Raise(e, m) == [kind |-> "raise", val |-> FALSE, exc |-> e, msg |-> m]

\* an exception that is no GithubException leaves the client unwrapped
TransportError == Raise("ConnectionError", <<"connection failed">>)

\* post_comment's except clause without the 401 branch
PostCommentError_No401(status, issue_number) ==
    IF status = 404 THEN
        Raise("GitHubClientError",
              <<"Issue #", IntStr(issue_number), " or repository not found">>)
    ELSE IF status = 0 THEN TransportError
    ELSE Raise("GitHubClientError", <<"Failed to post comment: ", ExcStr(status)>>)

\* the except clause of post_comment
PostCommentError(status, issue_number) ==
    IF status = 401 THEN Raise("GitHubAuthError", <<"Invalid GitHub token">>)
    ELSE IF status = 404 THEN
        Raise("GitHubClientError",
              <<"Issue #", IntStr(issue_number), " or repository not found">>)
    ELSE IF status = 0 THEN TransportError
    ELSE Raise("GitHubClientError", <<"Failed to post comment: ", ExcStr(status)>>)

\* the comments _is_duplicate looks at: list(issue.get_comments())[:10]
\* _is_duplicate looking at the newest comment only
CheckedComments_NewestOnly(listing) ==
    IF listing = <<>> THEN <<>> ELSE <<listing[Len(listing)]>>

\* comments = list(issue.get_comments())[:10]
CheckedComments(listing) == Take(listing, WindowSize)

\* _is_duplicate comparing whole comment bodies instead of searching in them
IsDuplicate_WholeBody(body, status, listing) ==
    IF DateMatchAt(body) = 0 THEN FALSE
    ELSE IF status # 200 THEN FALSE
    ELSE \E i \in 1..Len(CheckedComments(listing)) :
            CheckedComments(listing)[i] = DatePrefix(body)

\* _is_duplicate taking any dated comment for a duplicate
IsDuplicate_AnyDate(body, status, listing) ==
    IF DateMatchAt(body) = 0 THEN FALSE
    ELSE IF status # 200 THEN FALSE
    ELSE \E i \in 1..Len(CheckedComments(listing)) :
            DateMatchAt(CheckedComments(listing)[i]) # 0

\* _is_duplicate answering True from its except clause
IsDuplicate_FailClosed(body, status, listing) ==
    IF DateMatchAt(body) = 0 THEN FALSE
    ELSE IF status # 200 THEN TRUE
    ELSE \E i \in 1..Len(CheckedComments(listing)) :
            Contains(CheckedComments(listing)[i], DatePrefix(body))

\* _is_duplicate once the listing has answered; status is the listing's
IsDuplicate(body, status, listing) ==
    IF DateMatchAt(body) = 0 THEN FALSE
    ELSE IF status # 200 THEN FALSE
    ELSE \E i \in 1..Len(CheckedComments(listing)) :
            Contains(CheckedComments(listing)[i], DatePrefix(body))

\* a dict is a sequence of <<key, value>> pairs in insertion order
Keys(d) == {d[i][1] : i \in 1..Len(d)}
Lookup(d, k) == d[CHOOSE i \in 1..Len(d) : d[i][1] = k][2]

RECURSIVE Without(_, _)
Without(d, ks) ==
    IF d = <<>> THEN <<>>
    ELSE IF Head(d)[1] \in ks THEN Without(Tail(d), ks)
    ELSE <<Head(d)>> \o Without(Tail(d), ks)

\* {**b, **a}: the defaults win
DictMerge_DefaultsWin(a, b) == a \o Without(b, Keys(a))

\* {**a, **b}
DictMerge(a, b) ==
    [i \in 1..Len(a) |->
        IF a[i][1] \in Keys(b) THEN <<a[i][1], Lookup(b, a[i][1])>> ELSE a[i]]
    \o Without(b, Keys(a))

\* datetime.now(timezone.utc).isoformat().replace("+00:00", "Z")
Timestamps ==
    <<"2026-11-02T05:10:00Z", "2026-11-02T05:10:01Z", "2026-11-02T05:10:02Z",
      "2026-11-02T05:10:03Z", "2026-11-02T05:10:04Z", "2026-11-02T05:10:05Z">>
Now(t) == Timestamps[IF t < Len(Timestamps) THEN t + 1 ELSE Len(Timestamps)]

DefaultMetadata(now) == <<<<"data-source", "garmin">>, <<"fetched-at", now>>>>

\* f"{k}: {v}"
MetaPart(kv) == <<kv[1], ":", " ", kv[2]>>

\* _add_metadata_footer; metadata None is the empty dict
AddMetadataFooter(body, metadata, now) ==
    LET final_metadata == DictMerge(DefaultMetadata(now), metadata)
        meta_parts == [i \in 1..Len(final_metadata) |-> MetaPart(final_metadata[i])]
        meta_comment == <<"<!-- ">> \o Join(meta_parts, <<", ">>) \o <<" -->">>
    IN  body \o <<"\n\n">> \o meta_comment

----------------------------------------------------------------------------
(* State shared by every specification *)

Callers == {"A", "B"}

NoExit == 0 - 1
NotAsked == 0 - 1

\* existing: the issue's comments when the call was made (kept for the
\* properties; the client never reads it)
NoCall == [op |-> "none", issue_number |-> 0, body |-> <<>>, metadata |-> <<>>,
           kwargs |-> {}, existing |-> <<>>]
\* the status each round trip of the call ended with, and the listing received
NoSeen == [get_issue |-> NotAsked, get_comments |-> NotAsked,
           create_comment |-> NotAsked, listing |-> <<>>]
NoCli == [flow |-> "none"]
NoLoc == [step |-> "none"]

\* comments other users or earlier runs left on the issue
FillerComment == <<"older note">>
DatedComment == <<"2026-01-06", ":", " sleep 23:30 wake 07:00">>

InitLens == {n \in 0..MaxInitComments : n <= 1 \/ n >= WindowSize - 1}

\* n comments, the one at pos (if any) carrying the date 2026-01-06
InitCommentLists ==
    {[i \in 1..n |-> IF i = pos THEN DatedComment ELSE FillerComment] :
        n \in InitLens, pos \in {0, 1, WindowSize, MaxInitComments}}

InitRest ==
    /\ issues = <<>>
    /\ clock = 0
    /\ ncalls = 0
    /\ pc = [p \in Callers |-> "idle"]
    /\ call = [p \in Callers |-> NoCall]
    /\ ret = [p \in Callers |-> NoResult]
    /\ log = [p \in Callers |-> <<>>]
    /\ seen = [p \in Callers |-> NoSeen]
    /\ posted = [p \in Callers |-> <<>>]
    /\ cli = [p \in Callers |-> NoCli]
    /\ loc = [p \in Callers |-> NoLoc]
    /\ exit = [p \in Callers |-> NoExit]
    /\ stdout = [p \in Callers |-> <<>>]

----------------------------------------------------------------------------
(* GitHubClient: the calls, one action per tracker round trip *)

\* what a script does with the outcome of post_comment: return 0 on either
\* answer, exit 1 from every except clause
ExitAfterPost(flow, r) ==
    IF flow \in {"fetch_and_post", "quick_note"}
    THEN (IF r.kind = "return" THEN 0 ELSE 1)
    ELSE NoExit

\* post_comment has ended with r
EndPostComment(p, r) ==
    /\ ret' = [ret EXCEPT ![p] = r]
    /\ pc' = [pc EXCEPT ![p] = "done"]
    /\ exit' = [exit EXCEPT ![p] = ExitAfterPost(cli[p].flow, r)]

\* Python binds the arguments of post_comment(issue_number, body, metadata,
\* **kwargs): a keyword the signature does not declare is a TypeError
BindPostComment(kwargs) ==
    IF kwargs \subseteq PostCommentParams THEN NoResult
    ELSE Raise("TypeError", <<"post_comment() got an unexpected keyword argument">>)

PostCommentCall(issue_number, body, metadata, kwargs) ==
    [op |-> "post_comment", issue_number |-> issue_number, body |-> body,
     metadata |-> metadata, kwargs |-> kwargs, existing |-> comments]

\* post_comment is entered: the arguments are bound
EnterPostComment(p, issue_number, body, metadata, kwargs) ==
    /\ pc[p] \in {"idle", "done"}
    /\ cli[p].flow = "none"
    /\ call' = [call EXCEPT ![p] = PostCommentCall(issue_number, body, metadata, kwargs)]
    /\ log' = [log EXCEPT ![p] = <<>>]
    /\ seen' = [seen EXCEPT ![p] = NoSeen]
    /\ posted' = [posted EXCEPT ![p] = <<>>]
    /\ ret' = [ret EXCEPT ![p] = BindPostComment(kwargs)]
    /\ pc' = [pc EXCEPT ![p] =
            IF BindPostComment(kwargs).kind = "raise" THEN "done" ELSE "get_issue"]
    /\ UNCHANGED <<comments, issues, clock, cli, loc, exit, stdout>>

\* a caller holding a constructed client calls post_comment
CallPostComment(p, issue_number, body, metadata, kwargs) ==
    /\ ncalls < MaxCalls
    /\ ncalls' = ncalls + 1
    /\ EnterPostComment(p, issue_number, body, metadata, kwargs)

\* post_comment: issue = self.repo.get_issue(issue_number), then the part of
\* _is_duplicate that needs no listing
GetIssue(p, status) ==
    /\ pc[p] = "get_issue"
    /\ log' = [log EXCEPT ![p] = Append(@, "get_issue")]
    /\ seen' = [seen EXCEPT ![p].get_issue = status]
    /\ IF status # 200
       THEN EndPostComment(p, PostCommentError(status, call[p].issue_number))
       ELSE /\ pc' = [pc EXCEPT ![p] =
                    IF DateMatchAt(call[p].body) = 0 THEN "create" ELSE "list"]
            /\ UNCHANGED <<ret, exit>>
    /\ UNCHANGED <<comments, issues, clock, ncalls, call, posted, cli, loc, stdout>>

\* _is_duplicate: list(issue.get_comments())[:10] and the scan
ListComments(p, status) ==
    /\ pc[p] = "list"
    /\ log' = [log EXCEPT ![p] = Append(@, "get_comments")]
    /\ seen' = [seen EXCEPT ![p].get_comments = status,
                            ![p].listing = IF status = 200 THEN comments ELSE <<>>]
    /\ IF IsDuplicate(call[p].body, status, comments)
       THEN EndPostComment(p, Return(FALSE))
       ELSE /\ pc' = [pc EXCEPT ![p] = "create"]
            /\ UNCHANGED <<ret, exit>>
    /\ UNCHANGED <<comments, issues, clock, ncalls, call, posted, cli, loc, stdout>>

\* post_comment: _add_metadata_footer and issue.create_comment(comment_body)
CreateComment(p, status) ==
    /\ pc[p] = "create"
    /\ LET comment_body ==
            AddMetadataFooter(call[p].body, call[p].metadata, Now(clock))
       IN  /\ posted' = [posted EXCEPT ![p] = comment_body]
           /\ comments' = IF status = 200 THEN Append(comments, comment_body)
                          ELSE comments
    /\ clock' = clock + 1
    /\ log' = [log EXCEPT ![p] = Append(@, "create_comment")]
    /\ seen' = [seen EXCEPT ![p].create_comment = status]
    /\ EndPostComment(p, IF status = 200 THEN Return(TRUE)
                         ELSE PostCommentError(status, call[p].issue_number))
    /\ UNCHANGED <<issues, ncalls, call, cli, loc, stdout>>

\* verify_issue_exists without the 404 branch
VerifyResult_404Raises(status) ==
    IF status = 200 THEN Return(TRUE)
    ELSE IF status = 401 THEN Raise("GitHubAuthError", <<"Invalid GitHub token">>)
    ELSE IF status = 0 THEN TransportError
    ELSE Raise("GitHubClientError", <<"Failed to verify issue: ", ExcStr(status)>>)

\* the except clause of verify_issue_exists
VerifyResult(status) ==
    IF status = 200 THEN Return(TRUE)
    ELSE IF status = 401 THEN Raise("GitHubAuthError", <<"Invalid GitHub token">>)
    ELSE IF status = 404 THEN Return(FALSE)
    ELSE IF status = 0 THEN TransportError
    ELSE Raise("GitHubClientError", <<"Failed to verify issue: ", ExcStr(status)>>)

\* a caller holding a constructed client calls verify_issue_exists
CallVerifyIssueExists(p, issue_number, status) ==
    /\ pc[p] \in {"idle", "done"}
    /\ cli[p].flow = "none"
    /\ ncalls < MaxCalls
    /\ ncalls' = ncalls + 1
    /\ call' = [call EXCEPT ![p] =
            [op |-> "verify_issue_exists", issue_number |-> issue_number,
             body |-> <<>>, metadata |-> <<>>, kwargs |-> {},
             existing |-> comments]]
    /\ log' = [log EXCEPT ![p] = <<"get_issue">>]
    /\ seen' = [seen EXCEPT ![p] = [NoSeen EXCEPT !.get_issue = status]]
    /\ posted' = [posted EXCEPT ![p] = <<>>]
    /\ ret' = [ret EXCEPT ![p] = VerifyResult(status)]
    /\ pc' = [pc EXCEPT ![p] = "done"]
    /\ UNCHANGED <<comments, issues, clock, cli, loc, exit, stdout>>

----------------------------------------------------------------------------
(* Spec: one caller uses a constructed client, one call after the other *)

Bodies ==
    { <<"2026-01-06", ":", " sleep 23:30 wake 07:00">>,
      <<"2026-01-06", ":", " nap 13:00">>,
      <<"2026-01-06", " ", "10:00:00 - note">>,
      <<"Test comment">>,
      <<"moved from ", "2026-01-07", ":", " to ", "2026-01-06", ":">> }

Metadatas ==
    { <<>>,
      <<<<"custom", "value">>>>,
      <<<<"data-source", "quick-note">>, <<"posted-at", "2026-11-02T13:10:00">>>>,
      <<<<"fetched-at", "2026-01-05T00:00:00Z">>, <<"custom", "value">>>> }

Init ==
    /\ comments \in InitCommentLists
    /\ InitRest

Next ==
    \/ \E i \in IssueNumbers, b \in Bodies, m \in Metadatas,
          k \in {{}, {"exact_match"}} : CallPostComment("A", i, b, m, k)
    \/ \E s \in Responses : GetIssue("A", s)
    \/ \E s \in Responses : ListComments("A", s)
    \/ \E s \in Responses : CreateComment("A", s)
    \/ \E i \in IssueNumbers, s \in Responses : CallVerifyIssueExists("A", i, s)

Spec == Init /\ [][Next]_vars

----------------------------------------------------------------------------
(* GarminClient and the formatter: the pure parts *)

GARMIN_CN_DOMAIN == "garmin.cn"
GARMIN_COM_DOMAIN == "garmin.com"

\* CHINA_TZ, in minutes east of UTC
ChinaOffset == 8 * 60

\* authenticate(): secret_string is GARTH_TOKEN_STRING ("" when unset),
\* loads_ok and dumps_ok tell whether garth.client.loads / dumps succeed.
\* ops lists the garth calls made.
\* authenticate() taking every supplied token for restored
Authenticate_AnyTokenRestores(domain, secret_string, loads_ok, dumps_ok) ==
    IF secret_string # ""
    THEN [authenticated |-> TRUE, raised |-> FALSE, ops |-> <<"loads">>]
    ELSE [authenticated |-> FALSE,
          raised |-> (domain = GARMIN_CN_DOMAIN /\ ~dumps_ok),
          ops |-> (IF domain = GARMIN_CN_DOMAIN THEN <<"dumps">> ELSE <<>>)]

\* authenticate() setting the flag once the session export has succeeded
Authenticate_FlagAfterExport(domain, secret_string, loads_ok, dumps_ok) ==
    IF secret_string # "" /\ loads_ok
    THEN [authenticated |-> TRUE, raised |-> FALSE, ops |-> <<"loads">>]
    ELSE [authenticated |-> (domain # GARMIN_CN_DOMAIN \/ dumps_ok),
          raised |-> (domain = GARMIN_CN_DOMAIN /\ ~dumps_ok),
          ops |-> (IF secret_string # "" THEN <<"loads">> ELSE <<>>)
                  \o (IF domain = GARMIN_CN_DOMAIN THEN <<"dumps">> ELSE <<>>)]

Authenticate(domain, secret_string, loads_ok, dumps_ok) ==
    IF secret_string # "" /\ loads_ok
    THEN [authenticated |-> TRUE, raised |-> FALSE, ops |-> <<"loads">>]
    ELSE [authenticated |-> FALSE,
          raised |-> (domain = GARMIN_CN_DOMAIN /\ ~dumps_ok),
          ops |-> (IF secret_string # "" THEN <<"loads">> ELSE <<>>)
                  \o (IF domain = GARMIN_CN_DOMAIN THEN <<"dumps">> ELSE <<>>)]

\* a naive datetime; None is NoTime
NoTime == [some |-> FALSE]

\* datetime.fromtimestamp(ms / 1000, tz=utc).astimezone(CHINA_TZ)
\* .replace(tzinfo=None); the service's timestamps are taken in whole minutes
\* since the epoch (ms = 60000 * minutes)
ToChinaTime(minutes) ==
    LET local == minutes + ChinaOffset
        c == CivilFromDays(local \div 1440)
    IN  [some |-> TRUE, y |-> c.y, m |-> c.m, d |-> c.d,
         H |-> (local % 1440) \div 60, M |-> local % 60]

NoSleepData == [present |-> FALSE]

\* get_sleep_data asking for the start timestamp only
GetSleepData_StartOnly(resp, target_date) ==
    IF resp.kind \in {"error", "empty", "no_dto"} THEN NoSleepData
    ELSE IF resp.start = 0 THEN NoSleepData
    ELSE [present |-> TRUE,
          sleep_time |-> ToChinaTime(resp.start),
          wake_time |-> ToChinaTime(resp.end),
          date |-> target_date]

\* get_sleep_data on an authenticated client, once garth.SleepData.list has
\* answered resp: an exception, an empty list, a record without daily DTO, or
\* a DTO with start/end timestamps (0 stands for a missing or zero timestamp)
GetSleepData(resp, target_date) ==
    IF resp.kind \in {"error", "empty", "no_dto"} THEN NoSleepData
    ELSE IF resp.start = 0 \/ resp.end = 0 THEN NoSleepData
    ELSE [present |-> TRUE,
          sleep_time |-> ToChinaTime(resp.start),
          wake_time |-> ToChinaTime(resp.end),
          date |-> target_date]

\* _format_time without the leading zeros
FormatTime_NoPad(dt) == ToString(dt.H) \o ":" \o ToString(dt.M)

\* _format_time: dt.strftime("%H:%M")
FormatTime(dt) == Pad2(dt.H) \o ":" \o Pad2(dt.M)

\* the three Chinese literals of the template, transliterated
MissingLabel == "shuju-queshi"
SleepLabel == "zuori-shuijiao"
WakeLabel == "jintian-qichuang"

\* format_sleep_entry
FormatSleepEntry(entry_date, sleep_time, wake_time) ==
    LET sleep_str == IF sleep_time.some THEN FormatTime(sleep_time) ELSE MissingLabel
        wake_str == IF wake_time.some THEN FormatTime(wake_time) ELSE MissingLabel
    IN  <<IsoDate(entry_date), ":", " ", SleepLabel, " ", sleep_str, " ",
          WakeLabel, " ", wake_str>>

\* determine_entry_date answering the date of falling asleep
DetermineEntryDate_SleepDate(sleep_time, wake_time) ==
    [y |-> sleep_time.y, m |-> sleep_time.m, d |-> sleep_time.d]

\* determine_entry_date: wake_time.date()
DetermineEntryDate(sleep_time, wake_time) ==
    [y |-> wake_time.y, m |-> wake_time.m, d |-> wake_time.d]

----------------------------------------------------------------------------
(* quick_note.py: the pure parts *)

DefaultBirthday == [y |-> 2025, m |-> 5, d |-> 10]

\* calculate_child_age: the three components after both adjustments
AgeComponents(birthday, today) ==
    LET years0 == today.y - birthday.y
        months0 == today.m - birthday.m
        days0 == today.d - birthday.d
        prev_month == IF today.m = 1 THEN 12 ELSE today.m - 1
        prev_year == IF today.m = 1 THEN today.y - 1 ELSE today.y
        days_in_prev_month ==
            IF prev_month = 12 THEN 31 ELSE DaysInMonth(prev_year, prev_month)
        months1 == IF days0 < 0 THEN months0 - 1 ELSE months0
        days1 == IF days0 < 0 THEN days0 + days_in_prev_month ELSE days0
    IN  [years |-> IF months1 < 0 THEN years0 - 1 ELSE years0,
         months |-> IF months1 < 0 THEN months1 + 12 ELSE months1,
         days |-> days1]

\* the age string; its three suffixes are transliterated
AgeString(a) ==
    LET y == IF a.years > 0 THEN <<ToString(a.years) \o "sui">> ELSE <<>>
        m == IF a.months > 0 THEN <<ToString(a.months) \o "geyue">> ELSE <<>>
        d == IF a.days > 0 \/ y \o m = <<>>
             THEN <<ToString(a.days) \o "tian">> ELSE <<>>
    IN  y \o m \o d

\* calculate_child_age; env is CHILD_BIRTHDAY: unset, not an ISO date, or a date
CalculateChildAge(env, today) ==
    AgeString(AgeComponents(IF env.kind = "date" THEN env.date ELSE DefaultBirthday,
                            today))

IsSpace(t) == t \in {" ", "\t", "\n"}

RECURSIVE LStrip(_)
LStrip(t) == IF t # <<>> /\ IsSpace(Head(t)) THEN LStrip(Tail(t)) ELSE t

RECURSIVE RStrip(_)
RStrip(t) ==
    IF t # <<>> /\ IsSpace(t[Len(t)]) THEN RStrip(SubSeq(t, 1, Len(t) - 1)) ELSE t

\* str.strip()
Strip(t) == RStrip(LStrip(t))

\* remote.origin.url converted to owner/repo; "" when git gives none
RepoFromRemote(url) ==
    IF url \in {"git@github.com:saveole/2026.git", "https://github.com/saveole/2026.git"}
    THEN RepoName ELSE ""

\* args.repo or get_repository(); "" when get_repository exits
ResolveRepo(c) ==
    IF c.repo # "" THEN c.repo
    ELSE IF c.env_repo # "" THEN c.env_repo
    ELSE RepoFromRemote(c.git_remote)

\* now.strftime('%Y-%m-%d %H:%M:%S')
LocalNow == <<IsoDate(Today), " ", "13:10:00">>

\* the comment text of a quick note
QuickContent(note_content, age_info) ==
    IF age_info # <<>>
    THEN LocalNow \o <<" - ">> \o note_content \o <<" - ">> \o age_info
    ELSE LocalNow \o <<" - ">> \o note_content

QuickMetadata ==
    <<<<"data-source", "quick-note">>, <<"posted-at", IsoDate(Today) \o "T13:10:00.000001">>>>

\* the except clause of quick_note.main that handles exc
QuickHandler(exc) ==
    IF exc = "GitHubAuthError" THEN "auth"
    ELSE IF exc = "GitHubClientError" THEN "client"
    ELSE "unexpected"

----------------------------------------------------------------------------
(* The scripts: one action per round trip to the tracker or the service *)

\* the issue as a script run finds it
CliInitCommentLists ==
    {<<>>, <<DatedComment>>, [i \in 1..MaxInitComments |-> FillerComment]}

\* where the repository can come from: --repo, GITHUB_REPOSITORY, git remote
RepoSources ==
    { [repo |-> RepoName, env_repo |-> "", git_remote |-> ""],
      [repo |-> "", env_repo |-> RepoName, git_remote |-> ""],
      [repo |-> "", env_repo |-> "", git_remote |-> "git@github.com:saveole/2026.git"],
      [repo |-> "", env_repo |-> "", git_remote |-> ""] }

\* a script that never takes its dry-run branch
DryRun_Ignored(c) == FALSE

\* args.dry_run, the --dry-run flag (store_true) of both scripts
DryRun(c) == c.dry_run

\* a script run begins: what the previous run left is dropped
BeginRun(p, c) ==
    /\ pc[p] \in {"idle", "done"}
    /\ ncalls < MaxCalls
    /\ ncalls' = ncalls + 1
    /\ cli' = [cli EXCEPT ![p] = c]
    /\ call' = [call EXCEPT ![p] = NoCall]
    /\ ret' = [ret EXCEPT ![p] = NoResult]
    /\ seen' = [seen EXCEPT ![p] = NoSeen]
    /\ posted' = [posted EXCEPT ![p] = <<>>]
    /\ UNCHANGED <<comments, issues, clock>>

\* GitHubClient.from_env past the token check: Github(token).get_repo(repo)
\* in __init__; its exception is no GitHubClientError and reaches the
\* scripts' except Exception
GetRepo(p, status) ==
    /\ pc[p] = "get_repo"
    /\ log' = [log EXCEPT ![p] = Append(@, "get_repo")]
    /\ IF status = 200
       THEN /\ pc' = [pc EXCEPT ![p] = "verify"]
            /\ UNCHANGED <<exit, loc, stdout>>
       ELSE /\ pc' = [pc EXCEPT ![p] = "done"]
            /\ exit' = [exit EXCEPT ![p] = 1]
            /\ loc' = [loc EXCEPT ![p].handler = "unexpected"]
            /\ stdout' = [stdout EXCEPT ![p] =
                    IF cli[p].flow = "quick_note"
                    THEN Append(@, <<"x Error: ", ExcStr(status)>>) ELSE @]
    /\ UNCHANGED <<comments, issues, clock, ncalls, call, ret, seen, posted, cli>>

\* quick_note.main up to the first round trip
QuickStart(p, c) ==
    /\ BeginRun(p, c)
    /\ LET note_content == Strip(c.note)
           repo == ResolveRepo(c)
           o == IF c.note = <<>> \/ note_content = <<>> \/ repo = ""
                THEN [pc |-> "done", exit |-> 1, handler |-> "exit",
                      ops |-> <<>>, out |-> <<>>]
                ELSE IF ~c.github_token
                THEN [pc |-> "done", exit |-> 1, handler |-> "client",
                      ops |-> <<"from_env">>,
                      out |-> <<<<"x Error: ", "GITHUB_TOKEN environment variable is not set">>>>]
                ELSE [pc |-> "get_repo", exit |-> NoExit, handler |-> "",
                      ops |-> <<"from_env">>, out |-> <<>>]
       IN  /\ pc' = [pc EXCEPT ![p] = o.pc]
           /\ exit' = [exit EXCEPT ![p] = o.exit]
           /\ log' = [log EXCEPT ![p] = o.ops]
           /\ stdout' = [stdout EXCEPT ![p] = o.out]
           /\ loc' = [loc EXCEPT ![p] =
                    [note_content |-> note_content, repo |-> repo,
                     handler |-> o.handler, verified |-> "unknown",
                     age_info |-> <<>>]]

\* quick_note.main from verify_issue_exists on
QuickVerify(p, status) ==
    /\ pc[p] = "verify"
    /\ cli[p].flow = "quick_note"
    /\ LET c == cli[p]
           note_content == loc[p].note_content
           r == VerifyResult(status)
           age_info == IF c.child THEN CalculateChildAge(c.birthday, Today) ELSE <<>>
           content == QuickContent(note_content, age_info)
           bind == BindPostComment({"exact_match"})
           verify_call == [NoCall EXCEPT !.op = "verify_issue_exists",
                                         !.issue_number = c.issue,
                                         !.existing = comments]
           o == IF r.kind = "raise"
                THEN [pc |-> "done", exit |-> 1, handler |-> QuickHandler(r.exc),
                      verified |-> "error", call |-> verify_call, ret |-> r,
                      out |-> <<<<"x Error: ">> \o r.msg>>]
                ELSE IF ~r.val /\ DryRun(c)
                THEN [pc |-> "done", exit |-> 0, handler |-> "",
                      verified |-> "missing", call |-> verify_call, ret |-> r,
                      out |-> <<<<"[DRY RUN] Would create issue with title:">>,
                                note_content>>]
                ELSE IF ~r.val /\ "create_issue" \in GitHubClientMethods
                THEN [pc |-> "create_issue", exit |-> NoExit, handler |-> "",
                      verified |-> "missing",
                      call |-> [NoCall EXCEPT !.op = "create_issue",
                                              !.body = note_content,
                                              !.existing = comments],
                      ret |-> NoResult, out |-> <<>>]
                ELSE IF ~r.val
                THEN [pc |-> "done", exit |-> 1,
                      handler |-> QuickHandler("AttributeError"),
                      verified |-> "missing",
                      call |-> [NoCall EXCEPT !.op = "create_issue",
                                              !.body = note_content,
                                              !.existing = comments],
                      ret |-> Raise("AttributeError",
                                    <<"'GitHubClient' object has no attribute 'create_issue'">>),
                      out |-> <<<<"x Error: ",
                                  "'GitHubClient' object has no attribute 'create_issue'">>>>]
                ELSE IF DryRun(c)
                THEN [pc |-> "done", exit |-> 0, handler |-> "",
                      verified |-> "exists", call |-> verify_call, ret |-> r,
                      out |-> <<<<"Note to post to issue #", IntStr(c.issue), ":">>,
                                content>>]
                ELSE IF bind.kind = "raise"
                THEN [pc |-> "done", exit |-> 1, handler |-> QuickHandler(bind.exc),
                      verified |-> "exists",
                      call |-> PostCommentCall(c.issue, content, QuickMetadata,
                                               {"exact_match"}),
                      ret |-> bind, out |-> <<<<"x Error: ">> \o bind.msg>>]
                ELSE [pc |-> "get_issue", exit |-> NoExit, handler |-> "",
                      verified |-> "exists",
                      call |-> PostCommentCall(c.issue, content, QuickMetadata,
                                               {"exact_match"}),
                      ret |-> NoResult, out |-> <<>>]
       IN  /\ pc' = [pc EXCEPT ![p] = o.pc]
           /\ exit' = [exit EXCEPT ![p] = o.exit]
           /\ call' = [call EXCEPT ![p] = o.call]
           /\ ret' = [ret EXCEPT ![p] = o.ret]
           /\ stdout' = [stdout EXCEPT ![p] = @ \o o.out]
           /\ loc' = [loc EXCEPT ![p].handler = o.handler,
                                 ![p].verified = o.verified,
                                 ![p].age_info = age_info]
    /\ log' = [log EXCEPT ![p] = Append(@, "get_issue")]
    /\ UNCHANGED <<comments, issues, clock, ncalls, seen, posted, cli>>

\* get_target_date(args.date, default_to_today=True); valid is FALSE when
\* date.fromisoformat raises and the script exits
TargetDate(date_arg) ==
    IF date_arg = "" THEN [valid |-> TRUE, date |-> Today]
    ELSE IF \E d \in ModelDays : IsoDate(d) = date_arg
    THEN [valid |-> TRUE, date |-> CHOOSE d \in ModelDays : IsoDate(d) = date_arg]
    ELSE [valid |-> FALSE, date |-> Today]

\* treating "no record" as a failure of the run
NoDataExit_Failure == 0 + 1

\* the exit code of fetch_and_post.main when the service has no record
NoDataExit == 0

\* fetch_and_post.main up to the first round trip: arguments, GarminClient(),
\* authenticate() and the authentication check of get_sleep_data
SleepStart(p, c) ==
    /\ BeginRun(p, c)
    /\ LET target == TargetDate(c.date_arg)
           repo == ResolveRepo(c)
           a == Authenticate(GARMIN_CN_DOMAIN,
                             IF c.garth = "unset" THEN "" ELSE "token",
                             c.garth = "good", c.dumps_ok)
           early == ~target.valid \/ repo = ""
           o == IF early
                THEN [pc |-> "done", exit |-> 1, handler |-> "exit", ops |-> <<>>]
                ELSE IF a.raised \/ ~a.authenticated
                THEN [pc |-> "done", exit |-> 1, handler |-> "unexpected",
                      ops |-> <<"configure">> \o a.ops]
                ELSE [pc |-> "fetch", exit |-> NoExit, handler |-> "",
                      ops |-> <<"configure">> \o a.ops]
       IN  /\ pc' = [pc EXCEPT ![p] = o.pc]
           /\ exit' = [exit EXCEPT ![p] = o.exit]
           /\ log' = [log EXCEPT ![p] = o.ops]
           /\ stdout' = [stdout EXCEPT ![p] = <<>>]
           /\ loc' = [loc EXCEPT ![p] =
                    [target_date |-> target.date, repo |-> repo,
                     authenticated |-> ~early /\ a.authenticated,
                     auth_raised |-> ~early /\ a.raised,
                     fetched |-> FALSE, service |-> "none",
                     sleep_data |-> NoSleepData,
                     formatted_entry |-> <<>>, handler |-> o.handler,
                     verified |-> "unknown"]]

\* fetch_and_post.main: get_sleep_data's query, the formatting, the dry run
\* and GitHubClient.from_env's token check
SleepFetch(p, resp) ==
    /\ pc[p] = "fetch"
    /\ LET c == cli[p]
           sleep_data == GetSleepData(resp, loc[p].target_date)
           formatted_entry ==
               IF sleep_data.present
               THEN FormatSleepEntry(
                        DetermineEntryDate(sleep_data.sleep_time, sleep_data.wake_time),
                        sleep_data.sleep_time, sleep_data.wake_time)
               ELSE <<>>
           o == IF ~sleep_data.present
                THEN [pc |-> "done", exit |-> NoDataExit, handler |-> "",
                      ops |-> <<"sleep_list">>, out |-> <<>>]
                ELSE IF DryRun(c)
                THEN [pc |-> "done", exit |-> 0, handler |-> "",
                      ops |-> <<"sleep_list">>, out |-> <<<<"\n">> \o formatted_entry>>]
                ELSE IF ~c.github_token
                THEN [pc |-> "done", exit |-> 1, handler |-> "unexpected",
                      ops |-> <<"sleep_list", "from_env">>, out |-> <<>>]
                ELSE [pc |-> "get_repo", exit |-> NoExit, handler |-> "",
                      ops |-> <<"sleep_list", "from_env">>, out |-> <<>>]
       IN  /\ pc' = [pc EXCEPT ![p] = o.pc]
           /\ exit' = [exit EXCEPT ![p] = o.exit]
           /\ log' = [log EXCEPT ![p] = @ \o o.ops]
           /\ stdout' = [stdout EXCEPT ![p] = @ \o o.out]
           /\ loc' = [loc EXCEPT ![p].fetched = TRUE,
                                 ![p].service = resp.kind,
                                 ![p].sleep_data = sleep_data,
                                 ![p].formatted_entry = formatted_entry,
                                 ![p].handler = o.handler]
    /\ UNCHANGED <<comments, issues, clock, ncalls, call, ret, seen, posted, cli>>

\* fetch_and_post.main: verify_issue_exists and the call of post_comment
SleepVerify(p, status) ==
    /\ pc[p] = "verify"
    /\ cli[p].flow = "fetch_and_post"
    /\ LET c == cli[p]
           r == VerifyResult(status)
           bind == BindPostComment({})
           verify_call == [NoCall EXCEPT !.op = "verify_issue_exists",
                                         !.issue_number = c.issue,
                                         !.existing = comments]
           post_call == PostCommentCall(c.issue, loc[p].formatted_entry, <<>>, {})
           o == IF r.kind = "raise"
                THEN [pc |-> "done", exit |-> 1, handler |-> "unexpected",
                      verified |-> "error", call |-> verify_call, ret |-> r]
                ELSE IF ~r.val
                THEN [pc |-> "done", exit |-> 1, handler |-> "",
                      verified |-> "missing", call |-> verify_call, ret |-> r]
                ELSE IF bind.kind = "raise"
                THEN [pc |-> "done", exit |-> 1, handler |-> "unexpected",
                      verified |-> "exists", call |-> post_call, ret |-> bind]
                ELSE [pc |-> "get_issue", exit |-> NoExit, handler |-> "",
                      verified |-> "exists", call |-> post_call, ret |-> NoResult]
       IN  /\ pc' = [pc EXCEPT ![p] = o.pc]
           /\ exit' = [exit EXCEPT ![p] = o.exit]
           /\ call' = [call EXCEPT ![p] = o.call]
           /\ ret' = [ret EXCEPT ![p] = o.ret]
           /\ loc' = [loc EXCEPT ![p].handler = o.handler,
                                 ![p].verified = o.verified]
    /\ log' = [log EXCEPT ![p] = Append(@, "get_issue")]
    /\ UNCHANGED <<comments, issues, clock, ncalls, seen, posted, cli, stdout>>

----------------------------------------------------------------------------
(* SpecQuick: runs of scripts/quick_note.py *)

Notes ==
    { <<>>, <<" ">>, <<"test">>, <<" ", "test", " ">>,
      <<"2026-01-06", ":", " slept well">> }

BirthdayEnvs ==
    { [kind |-> "unset"], [kind |-> "invalid"],
      [kind |-> "date", date |-> [y |-> 2024, m |-> 12, d |-> 31]] }

\* the note, --issue and --repo / the environment's repository: the sources
\* of the repository are varied under one note and the default issue
QuickArgs ==
    { a \in [note : Notes, issue : IssueNumbers, rs : RepoSources] :
        a.rs.repo # "" \/ (a.note = <<"test">> /\ a.issue = 1) }

\* --child and CHILD_BIRTHDAY; the birthday is read only with --child
ChildEnvs ==
    { [child |-> FALSE, birthday |-> [kind |-> "unset"]] }
    \cup { [child |-> TRUE, birthday |-> b] : b \in BirthdayEnvs }

QuickClis ==
    { [flow |-> "quick_note", note |-> a.note, issue |-> a.issue,
       repo |-> a.rs.repo, env_repo |-> a.rs.env_repo,
       git_remote |-> a.rs.git_remote, dry_run |-> dr,
       child |-> ce.child, birthday |-> ce.birthday, github_token |-> tk] :
        a \in QuickArgs, dr \in BOOLEAN, ce \in ChildEnvs, tk \in BOOLEAN }

InitQuick ==
    /\ comments \in CliInitCommentLists
    /\ InitRest

NextQuick ==
    \/ \E c \in QuickClis : QuickStart("A", c)
    \/ \E s \in Responses : GetRepo("A", s)
    \/ \E s \in Responses : QuickVerify("A", s)

SpecQuick == InitQuick /\ [][NextQuick]_vars

----------------------------------------------------------------------------
(* SpecSleep: runs of scripts/fetch_and_post.py *)

SleepResponses ==
    { [kind |-> "error"], [kind |-> "empty"], [kind |-> "no_dto"] }
    \cup { [kind |-> "dto", start |-> st, end |-> en] :
            st \in {0, 29460450, 29461260}, en \in {0, 29460900, 29461925} }

\* --date, --issue and --repo / the environment's repository: the sources
\* of the repository are varied under the default date and issue
SleepArgs ==
    { a \in [date_arg : {"", "2026-01-06", "06/01/2026"}, issue : IssueNumbers,
             rs : RepoSources] :
        a.rs.repo # "" \/ (a.date_arg = "" /\ a.issue = 1) }

\* GARTH_TOKEN_STRING and whether garth.client.dumps() succeeds; dumps is
\* not reached when the token restores
GarthEnvs ==
    { [garth |-> g, dumps_ok |-> du] : g \in {"unset", "good", "bad"}, du \in BOOLEAN }
    \ { [garth |-> "good", dumps_ok |-> FALSE] }

SleepClis ==
    { [flow |-> "fetch_and_post", date_arg |-> a.date_arg, issue |-> a.issue,
       repo |-> a.rs.repo, env_repo |-> a.rs.env_repo,
       git_remote |-> a.rs.git_remote, dry_run |-> dr,
       github_token |-> tk, garth |-> ge.garth, dumps_ok |-> ge.dumps_ok] :
        a \in SleepArgs, dr \in BOOLEAN, tk \in BOOLEAN, ge \in GarthEnvs }

InitSleep ==
    /\ comments \in CliInitCommentLists
    /\ InitRest

NextSleep ==
    \/ \E c \in SleepClis : SleepStart("A", c)
    \/ \E r \in SleepResponses : SleepFetch("A", r)
    \/ \E s \in Responses : GetRepo("A", s)
    \/ \E s \in Responses : SleepVerify("A", s)
    \/ \E s \in Responses : GetIssue("A", s)
    \/ \E s \in Responses : ListComments("A", s)
    \/ \E s \in Responses : CreateComment("A", s)

SpecSleep == InitSleep /\ [][NextSleep]_vars

----------------------------------------------------------------------------
(* SpecGarmin: one GarminClient and the calls made on it *)

\* get_sleep_data answering absent on an unauthenticated client
GetSleepDataCall_AbsentUnauthenticated(authenticated, resp, target_date) ==
    IF ~authenticated
    THEN [ret |-> Return(TRUE), data |-> NoSleepData, ops |-> <<>>]
    ELSE [ret |-> Return(TRUE), data |-> GetSleepData(resp, target_date),
          ops |-> <<"sleep_list">>]

\* get_sleep_data as a call: the authentication check, then the query
GetSleepDataCall(authenticated, resp, target_date) ==
    IF ~authenticated
    THEN [ret |-> Raise("Exception",
                        <<"Not authenticated. Call authenticate() first.">>),
          data |-> NoSleepData, ops |-> <<>>]
    ELSE [ret |-> Return(TRUE), data |-> GetSleepData(resp, target_date),
          ops |-> <<"sleep_list">>]

\* GarminClient(domain): the flag starts false, garth is configured for the
\* CN domain only; c is the process environment the client lives in
NewGarminClient(p, c) ==
    /\ pc[p] \in {"idle", "ready"}
    /\ ncalls < MaxCalls
    /\ ncalls' = ncalls + 1
    /\ pc' = [pc EXCEPT ![p] = "ready"]
    /\ cli' = [cli EXCEPT ![p] = c]
    /\ loc' = [loc EXCEPT ![p] =
            [authenticated |-> FALSE, before |-> FALSE, calls |-> 0,
             service |-> "none", stamps |-> <<0, 0>>,
             target_date |-> Today, sleep_data |-> NoSleepData]]
    /\ log' = [log EXCEPT ![p] =
            IF c.domain = GARMIN_CN_DOMAIN THEN <<"configure">> ELSE <<>>]
    /\ call' = [call EXCEPT ![p] = NoCall]
    /\ ret' = [ret EXCEPT ![p] = NoResult]
    /\ UNCHANGED <<comments, issues, clock, seen, posted, exit, stdout>>

\* authenticate(): the flag is only ever set, an exception of the export is
\* logged and raised again
CallAuthenticate(p) ==
    /\ pc[p] = "ready"
    /\ loc[p].calls < MaxAdapterCalls
    /\ LET c == cli[p]
           a == Authenticate(c.domain,
                             IF c.garth = "unset" THEN "" ELSE "token",
                             c.garth = "good", c.dumps_ok)
       IN  /\ loc' = [loc EXCEPT ![p].authenticated = @ \/ a.authenticated,
                                 ![p].before = loc[p].authenticated,
                                 ![p].calls = @ + 1]
           /\ log' = [log EXCEPT ![p] = @ \o a.ops]
           /\ ret' = [ret EXCEPT ![p] =
                    IF a.raised
                    THEN Raise("Exception", <<"session export failed">>)
                    ELSE Return(TRUE)]
    /\ call' = [call EXCEPT ![p] = [NoCall EXCEPT !.op = "authenticate"]]
    /\ UNCHANGED <<comments, issues, clock, ncalls, pc, seen, posted, cli, exit,
                   stdout>>

\* get_sleep_data(target_date); resp is what garth.SleepData.list answers
\* when it is asked
CallGetSleepData(p, target_date, resp) ==
    /\ pc[p] = "ready"
    /\ loc[p].calls < MaxAdapterCalls
    /\ LET g == GetSleepDataCall(loc[p].authenticated, resp, target_date)
       IN  /\ loc' = [loc EXCEPT ![p].before = loc[p].authenticated,
                                 ![p].calls = @ + 1,
                                 ![p].service =
                                    IF g.ops = <<>> THEN "none" ELSE resp.kind,
                                 ![p].stamps =
                                    IF g.ops # <<>> /\ resp.kind = "dto"
                                    THEN <<resp.start, resp.end>> ELSE <<0, 0>>,
                                 ![p].target_date = target_date,
                                 ![p].sleep_data = g.data]
           /\ log' = [log EXCEPT ![p] = @ \o g.ops]
           /\ ret' = [ret EXCEPT ![p] = g.ret]
    /\ call' = [call EXCEPT ![p] = [NoCall EXCEPT !.op = "get_sleep_data"]]
    /\ UNCHANGED <<comments, issues, clock, ncalls, pc, seen, posted, cli, exit,
                   stdout>>

GarminEnvs ==
    { [flow |-> "garmin", domain |-> d, garth |-> ge.garth,
       dumps_ok |-> ge.dumps_ok] :
        d \in {GARMIN_CN_DOMAIN, GARMIN_COM_DOMAIN}, ge \in GarthEnvs }

GarminDates == {Today, [y |-> 2026, m |-> 1, d |-> 6]}

InitGarmin ==
    /\ comments = <<>>
    /\ InitRest

NextGarmin ==
    \/ \E c \in GarminEnvs : NewGarminClient("A", c)
    \/ CallAuthenticate("A")
    \/ \E d \in GarminDates, r \in SleepResponses : CallGetSleepData("A", d, r)

SpecGarmin == InitGarmin /\ [][NextGarmin]_vars

----------------------------------------------------------------------------
(* SpecFmt: calls of the formatter's functions *)

\* a call of format_sleep_entry; a time that is None is NoTime
CallFormatSleepEntry(p, entry_date, sleep_time, wake_time) ==
    /\ cli' = [cli EXCEPT ![p] = [flow |-> "formatter"]]
    /\ loc' = [loc EXCEPT ![p] =
            [fn |-> "format_sleep_entry", entry_date |-> entry_date,
             sleep_time |-> sleep_time, wake_time |-> wake_time,
             result |-> FormatSleepEntry(entry_date, sleep_time, wake_time)]]
    /\ UNCHANGED <<comments, issues, clock, ncalls, pc, call, ret, log, seen,
                   posted, exit, stdout>>

\* a call of determine_entry_date on two datetimes
CallDetermineEntryDate(p, sleep_time, wake_time) ==
    /\ cli' = [cli EXCEPT ![p] = [flow |-> "formatter"]]
    /\ loc' = [loc EXCEPT ![p] =
            [fn |-> "determine_entry_date", sleep_time |-> sleep_time,
             wake_time |-> wake_time,
             result |-> DetermineEntryDate(sleep_time, wake_time)]]
    /\ UNCHANGED <<comments, issues, clock, ncalls, pc, call, ret, log, seen,
                   posted, exit, stdout>>

\* naive datetimes: midnight, single-digit and two-digit hours and minutes,
\* on two consecutive days
FmtTimes ==
    { [some |-> TRUE, y |-> 2026, m |-> 1, d |-> d, H |-> h, M |-> mi] :
        d \in {5, 6}, h \in {0, 7, 23}, mi \in {0, 5, 30} }

InitFmt ==
    /\ comments = <<>>
    /\ InitRest

NextFmt ==
    \/ \E e \in ModelDays, s \in FmtTimes \cup {NoTime}, w \in FmtTimes \cup {NoTime} :
            CallFormatSleepEntry("A", e, s, w)
    \/ \E s \in FmtTimes, w \in FmtTimes : CallDetermineEntryDate("A", s, w)

SpecFmt == InitFmt /\ [][NextFmt]_vars

----------------------------------------------------------------------------
(* SpecCli: runs of either script *)

InitCli ==
    /\ comments \in CliInitCommentLists
    /\ InitRest

NextCli ==
    \/ NextQuick
    \/ NextSleep

SpecCli == InitCli /\ [][NextCli]_vars

----------------------------------------------------------------------------
(* SpecRace: two callers, each making one default-mode post_comment call on
   the same issue; their round trips interleave freely *)

RaceBodies ==
    { <<"2026-01-06", ":", " sleep 23:30 wake 07:00">>,
      <<"2026-01-06", ":", " nap 13:00">>,
      <<"2026-01-07", ":", " sleep 22:45 wake 06:30">> }

RaceInitComments ==
    { <<>>, <<<<"2026-01-05", ":", " sleep 23:10 wake 06:50">>>> }

\* one process calls post_comment once
RacePostComment(p, body) ==
    /\ pc[p] = "idle"
    /\ EnterPostComment(p, 1, body, <<>>, {})
    /\ UNCHANGED ncalls

InitRace ==
    /\ comments \in RaceInitComments
    /\ InitRest

NextRace ==
    \/ \E p \in Callers, b \in RaceBodies : RacePostComment(p, b)
    \/ \E p \in Callers, s \in Responses : GetIssue(p, s)
    \/ \E p \in Callers, s \in Responses : ListComments(p, s)
    \/ \E p \in Callers, s \in Responses : CreateComment(p, s)

SpecRace == InitRace /\ [][NextRace]_vars

----------------------------------------------------------------------------
(* SpecSeq: one caller makes default-mode post_comment calls one after the
   other on an issue that starts without comments; every listing answers *)

SeqBodies ==
    { <<"2026-01-06", ":", " sleep 23:30 wake 07:00">>,
      <<"2026-01-06", ":", " nap 13:00">>,
      <<"2026-01-07", ":", " sleep 22:45 wake 06:30">>,
      <<"2026-01-06", " ", "10:00:00 - note">>,
      <<"moved from ", "2026-01-07", ":", " to ", "2026-01-06", ":">>,
      <<"Test comment">> }

\* the next call of the sequence
SeqPostComment(p, body) ==
    /\ ncalls < MaxSeqCalls
    /\ ncalls' = ncalls + 1
    /\ EnterPostComment(p, 1, body, <<>>, {})

InitSeq ==
    /\ comments = <<>>
    /\ InitRest

NextSeq ==
    \/ \E b \in SeqBodies : SeqPostComment("A", b)
    \/ \E s \in {200, 404} : GetIssue("A", s)
    \/ ListComments("A", 200)
    \/ \E s \in {200, 500} : CreateComment("A", s)

SpecSeq == InitSeq /\ [][NextSeq]_vars

----------------------------------------------------------------------------
(* SpecAge: calls of quick_note.calculate_child_age *)

\* a call of calculate_child_age; env is CHILD_BIRTHDAY and today is what
\* date.today() answers
CallCalculateChildAge(p, env, today) ==
    /\ cli' = [cli EXCEPT ![p] = [flow |-> "age", birthday |-> env]]
    /\ loc' = [loc EXCEPT ![p] =
            [fn |-> "calculate_child_age",
             birthday |-> IF env.kind = "date" THEN env.date ELSE DefaultBirthday,
             today |-> today,
             age |-> AgeComponents(IF env.kind = "date" THEN env.date
                                   ELSE DefaultBirthday, today),
             result |-> CalculateChildAge(env, today)]]
    /\ UNCHANGED <<comments, issues, clock, ncalls, pc, call, ret, log, seen,
                   posted, exit, stdout>>

\* the dates that exist among the given years, months and days
ValidDates(ys, ms, ds) ==
    { x \in [y : ys, m : ms, d : ds] : x.d <= DaysInMonth(x.y, x.m) }

AgeBirthdays == ValidDates({2024, 2025}, {1, 2, 5, 12}, {1, 10, 29, 31})
AgeTodays == ValidDates({2025, 2026}, {1, 3, 5, 11}, {1, 2, 10, 31})

AgeEnvs ==
    { [kind |-> "unset"], [kind |-> "invalid"] }
    \cup { [kind |-> "date", date |-> b] : b \in AgeBirthdays }

InitAge ==
    /\ comments = <<>>
    /\ InitRest

NextAge ==
    \E env \in AgeEnvs, today \in AgeTodays : CallCalculateChildAge("A", env, today)

SpecAge == InitAge /\ [][NextAge]_vars

----------------------------------------------------------------------------
(* Properties of GitHubClient, checked under Spec *)

Range(s) == {s[i] : i \in 1..Len(s)}

Done(p) == pc[p] = "done"
DefaultPost(p) == call[p].op = "post_comment" /\ call[p].kwargs = {}
ExactPost(p) == call[p].op = "post_comment" /\ "exact_match" \in call[p].kwargs

\* no round trip the call made has failed
NoRoundTripFailed(p) ==
    /\ seen[p].get_issue \in {NotAsked, 200}
    /\ seen[p].get_comments \in {NotAsked, 200}
    /\ seen[p].create_comment \in {NotAsked, 200}

ListedDuplicate(p) ==
    /\ DateMatchAt(call[p].body) # 0
    /\ seen[p].get_comments = 200
    /\ \E i \in 1..Len(seen[p].listing) :
            /\ i <= WindowSize
            /\ Contains(seen[p].listing[i], DatePrefix(call[p].body))

C2_ExactMatchMode ==
    \A p \in Callers :
        (Done(p) /\ ExactPost(p) /\ NoRoundTripFailed(p))
        => IF \E j \in 1..Len(call[p].existing) : call[p].existing[j] = call[p].body
           THEN ret[p] = Return(FALSE) /\ seen[p].create_comment = NotAsked
           ELSE ret[p] = Return(TRUE) /\ seen[p].create_comment = 200

\* C3: on an issue listing more than 10 comments oldest first, the check finds
\* a duplicate exactly when one of the 10 newest comments contains the date
\* token; older comments are not consulted.
C3_NewestWindow ==
    \A p \in Callers :
        (/\ Done(p) /\ DefaultPost(p)
         /\ DateMatchAt(call[p].body) # 0
         /\ seen[p].get_comments = 200
         /\ Len(seen[p].listing) > WindowSize)
        => (ret[p] = Return(FALSE)
            <=> \E i \in 1..Len(seen[p].listing) :
                    /\ i > Len(seen[p].listing) - WindowSize
                    /\ Contains(seen[p].listing[i], DatePrefix(call[p].body)))

\* C4: when the comment listing made for the duplicate check fails (any
\* error), post_comment does not end with that error: it goes on to build the
\* footer and to call create-comment, and a successful create returns true.
C4_ListingFailureSwallowed ==
    \A p \in Callers :
        (/\ call[p].op = "post_comment"
         /\ seen[p].get_comments \notin {NotAsked, 200})
        => \/ pc[p] = "create" /\ ret[p] = NoResult
           \/ /\ Done(p)
              /\ log[p] = <<"get_issue", "get_comments", "create_comment">>
              /\ Contains(posted[p], <<"\n\n", "<!-- ">>)
              /\ seen[p].create_comment = 200 => ret[p] = Return(TRUE)
              /\ seen[p].create_comment = 200 =>
                    comments = Append(call[p].existing, posted[p])

C4_Witness ==
    \E p \in Callers :
        /\ Done(p) /\ DefaultPost(p)
        /\ seen[p].get_comments \in ApiFailures
        /\ ret[p] = Return(TRUE)

\* the footer of the text handed to create_comment: what follows the body and
\* the blank line
FooterOf(p) == SubSeq(posted[p], Len(call[p].body) + 2, Len(posted[p]))
FooterInner(p) == SubSeq(FooterOf(p), 2, Len(FooterOf(p)) - 1)
FooterCount(p) == (Len(FooterInner(p)) + 1) \div 5
FooterPairs(p) ==
    {<<FooterInner(p)[5 * (j - 1) + 1], FooterInner(p)[5 * (j - 1) + 4]>> :
        j \in 1..FooterCount(p)}

\* body, blank line, "<!-- k: v, k: v -->"
WellFormedComment(p) ==
    /\ Len(posted[p]) >= Len(call[p].body) + 3
    /\ SubSeq(posted[p], 1, Len(call[p].body)) = call[p].body
    /\ posted[p][Len(call[p].body) + 1] = "\n\n"
    /\ FooterOf(p)[1] = "<!-- "
    /\ FooterOf(p)[Len(FooterOf(p))] = " -->"
    /\ (Len(FooterInner(p)) + 1) % 5 = 0
    /\ \A j \in 1..FooterCount(p) :
            /\ FooterInner(p)[5 * (j - 1) + 2] = ":"
            /\ FooterInner(p)[5 * (j - 1) + 3] = " "
            /\ j < FooterCount(p) => FooterInner(p)[5 * j] = ", "

\* C5: whenever post_comment posts, the text created is the body, a blank
\* line and one footer whose pairs are the defaults (data-source, fetched-at)
\* overridden and extended by the caller's metadata.
C5_FooterIsMergedMetadata ==
    \A p \in Callers :
        posted[p] # <<>> =>
            /\ WellFormedComment(p)
            /\ LET P == FooterPairs(p)
                   K == {kv[1] : kv \in P}
                   md == call[p].metadata
               IN  /\ Cardinality(K) = FooterCount(p)
                   /\ K = {"data-source", "fetched-at"} \cup {md[i][1] : i \in 1..Len(md)}
                   /\ \A i \in 1..Len(md) : <<md[i][1], md[i][2]>> \in P
                   /\ (\A i \in 1..Len(md) : md[i][1] # "data-source")
                        => <<"data-source", "garmin">> \in P
                   /\ (\A i \in 1..Len(md) : md[i][1] # "fetched-at")
                        => \E t \in Range(Timestamps) : <<"fetched-at", t>> \in P
            /\ ret[p] = Return(TRUE) => comments[Len(comments)] = posted[p]

C5_Witness ==
    \E p \in Callers :
        /\ Done(p) /\ ret[p] = Return(TRUE)
        /\ <<"data-source", "quick-note">> \in FooterPairs(p)
        /\ \E t \in Range(Timestamps) : <<"fetched-at", t>> \in FooterPairs(p)

\* C6: verify_issue_exists returns false on 404, raises the authentication
\* error on 401, returns true when the issue is retrieved, and never creates
\* or modifies an issue or a comment.
C6_VerifyIssueExists ==
    \A p \in Callers :
        (Done(p) /\ call[p].op = "verify_issue_exists")
        => /\ seen[p].get_issue = 404 => ret[p] = Return(FALSE)
           /\ seen[p].get_issue = 401 =>
                ret[p].kind = "raise" /\ ret[p].exc = "GitHubAuthError"
           /\ seen[p].get_issue = 200 => ret[p] = Return(TRUE)
           /\ comments = call[p].existing
           /\ issues = <<>>
           /\ log[p] = <<"get_issue">>
           /\ posted[p] = <<>>

C6_Witness ==
    \E p \in Callers :
        /\ Done(p) /\ call[p].op = "verify_issue_exists"
        /\ seen[p].get_issue = 404
        /\ ret[p] = Return(FALSE)
        /\ Len(comments) > 0

\* the API failure that ended the call: the lookup's or the create's
ApiFailed(p) ==
    seen[p].get_issue \in ApiFailures \/ seen[p].create_comment \in ApiFailures
FailStatus(p) ==
    IF seen[p].get_issue \in ApiFailures THEN seen[p].get_issue
    ELSE seen[p].create_comment

\* C7 as stated: an API failure of the lookup or of the create makes
\* post_comment fail with the authentication error (401) or the generic client
\* error (any other status), each carrying the issue number and the repository.
C7_ErrorsCarryContext ==
    \A p \in Callers :
        (Done(p) /\ DefaultPost(p) /\ ApiFailed(p))
        => /\ ret[p].kind = "raise"
           /\ FailStatus(p) = 401 => ret[p].exc = "GitHubAuthError"
           /\ FailStatus(p) # 401 => ret[p].exc = "GitHubClientError"
           /\ IntStr(call[p].issue_number) \in Range(ret[p].msg)
           /\ RepoName \in Range(ret[p].msg)

\* C7 (amended): an API failure of the lookup or of the create makes
\* post_comment fail, never return: with the authentication error on 401 and
\* the generic client error on any other status; only the 404 error's message
\* carries the issue number and no message carries the repository.
C7_ErrorMapping ==
    \A p \in Callers :
        (Done(p) /\ DefaultPost(p) /\ ApiFailed(p))
        => /\ ret[p].kind = "raise"
           /\ FailStatus(p) = 401 => ret[p].exc = "GitHubAuthError"
           /\ FailStatus(p) # 401 => ret[p].exc = "GitHubClientError"
           /\ IntStr(call[p].issue_number) \in Range(ret[p].msg)
                <=> FailStatus(p) = 404
           /\ RepoName \notin Range(ret[p].msg)

C7_Witness ==
    \E p \in Callers :
        /\ Done(p) /\ DefaultPost(p)
        /\ seen[p].get_issue = 200
        /\ seen[p].create_comment = 401
        /\ ret[p].exc = "GitHubAuthError"

----------------------------------------------------------------------------
(* Properties of scripts/quick_note.py, checked under SpecQuick *)

QuickRun(p) == cli[p].flow = "quick_note"

\* C8: a quick-note run without --dry-run whose verify_issue_exists answers
\* "no such issue" creates an issue titled with the trimmed note and an empty
\* body, reports its number, posts no comment and exits 0.
C8_MissingIssueIsCreated ==
    \A p \in Callers :
        (/\ QuickRun(p) /\ Done(p)
         /\ ~cli[p].dry_run
         /\ loc[p].verified = "missing")
        => /\ exit[p] = 0
           /\ \E i \in 1..Len(issues) :
                issues[i].title = Strip(cli[p].note) /\ issues[i].body = <<>>
           /\ \E i \in 1..Len(stdout[p]) : Head(stdout[p][i]) = "Created issue #"
           /\ posted[p] = <<>>

\* C9: a quick-note run that resolved its repository exits 1 exactly when an
\* authentication, client or unexpected error occurred or the note is empty
\* after trimming, and 0 otherwise; in particular a run against an existing
\* issue with a valid credential and no identical comment ends with the
\* comment posted and exit 0.
C9_QuickNoteExitCodes ==
    \A p \in Callers :
        (QuickRun(p) /\ Done(p) /\ loc[p].repo # "")
        => /\ exit[p] \in {0, 1}
           /\ exit[p] = 1
                <=> \/ loc[p].handler \in {"auth", "client", "unexpected"}
                    \/ Strip(cli[p].note) = <<>>
           /\ (/\ loc[p].verified = "exists"
               /\ ~cli[p].dry_run
               /\ NoRoundTripFailed(p)
               /\ \A j \in 1..Len(comments) :
                    comments[j] # QuickContent(loc[p].note_content, loc[p].age_info))
              => /\ exit[p] = 0
                 /\ seen[p].create_comment = 200
                 /\ posted[p] # <<>>

----------------------------------------------------------------------------
(* Properties of scripts/fetch_and_post.py, checked under SpecSleep *)

SleepRun(p) == cli[p].flow = "fetch_and_post"

\* what reaches the issue tracker, the credential read included
TrackerOps ==
    {"from_env", "get_repo", "get_issue", "get_comments", "create_comment",
     "create_issue"}

\* C10: in the sleep-fetch flow, once the authenticated fetch has yielded no
\* sleep record the run has ended with exit code 0, and no issue-tracker
\* operation is attempted: no credential read, no issue lookup, no comment
\* listing, no create-comment.
C10_NoDataEndsRun ==
    \A p \in Callers :
        (/\ SleepRun(p)
         /\ loc[p].authenticated /\ loc[p].fetched
         /\ ~loc[p].sleep_data.present)
        => /\ Done(p)
           /\ exit[p] = 0
           /\ \A i \in 1..Len(log[p]) : log[p][i] \notin TrackerOps
           /\ log[p][Len(log[p])] = "sleep_list"
           /\ call[p] = NoCall
           /\ posted[p] = <<>>
           /\ stdout[p] = <<>>

C10_Witness ==
    \E p \in Callers :
        /\ SleepRun(p)
        /\ loc[p].authenticated /\ loc[p].fetched
        /\ ~loc[p].sleep_data.present
        /\ ~cli[p].dry_run /\ cli[p].github_token
        /\ exit[p] = 0

\* C11: a finished sleep-fetch run has exit code 1 whenever the fetch or the
\* post step hit an error (an exception of the sleep-service library while
\* querying the day's record included) or the target issue does not exist,
\* and exit code 0 only after a successful post, a duplicate skip, a dry run
\* or a genuine no-data answer from the service.
C11_SleepExitCodes ==
    \A p \in Callers :
        (SleepRun(p) /\ Done(p))
        => /\ exit[p] \in {0, 1}
           /\ (\/ loc[p].service = "error"
               \/ loc[p].auth_raised
               \/ loc[p].handler = "unexpected"
               \/ loc[p].verified = "missing"
               \/ ret[p].kind = "raise")
              => exit[p] = 1
           /\ exit[p] = 0
              => \/ ret[p] = Return(TRUE) /\ posted[p] # <<>>
                 \/ ret[p] = Return(FALSE)
                 \/ cli[p].dry_run /\ loc[p].sleep_data.present
                 \/ /\ loc[p].service \in {"empty", "no_dto", "dto"}
                    /\ ~loc[p].sleep_data.present

----------------------------------------------------------------------------
(* Properties of GarminClient, checked under SpecGarmin *)

GarminRun(p) == cli[p].flow = "garmin"
AfterAuthenticate(p) == GarminRun(p) /\ call[p].op = "authenticate"
AfterGetSleepData(p) == GarminRun(p) /\ call[p].op = "get_sleep_data"

\* C12: authenticate() called with a session token that fails to restore
\* never raises: it returns and leaves the client unauthenticated, on every
\* domain and whatever the session export does.
C12_FailedRestoreNeverRaises ==
    \A p \in Callers :
        (AfterAuthenticate(p) /\ cli[p].garth = "bad")
        => /\ ret[p].kind = "return"
           /\ ~loc[p].authenticated

\* C13: once authenticate() has returned, the flag is true exactly when a
\* session token was supplied and restored; without a token it is false, and
\* no interactive login has been made.
C13_FlagIffTokenRestored ==
    \A p \in Callers :
        (AfterAuthenticate(p) /\ ret[p].kind = "return")
        => /\ loc[p].authenticated <=> cli[p].garth = "good"
           /\ cli[p].garth = "unset" => ~loc[p].authenticated
           /\ \A i \in 1..Len(log[p]) :
                log[p][i] \in {"configure", "loads", "dumps", "sleep_list"}

C13_Witness ==
    \E p \in Callers :
        /\ AfterAuthenticate(p) /\ ret[p].kind = "return"
        /\ cli[p].garth = "unset" /\ cli[p].domain = GARMIN_CN_DOMAIN
        /\ "dumps" \in Range(log[p]) /\ ~loc[p].authenticated

NotAuthenticatedError ==
    Raise("Exception", <<"Not authenticated. Call authenticate() first.">>)

\* C14: get_sleep_data on a client whose flag is false raises the
\* 'Not authenticated' error (it does not answer absent) and the sleep
\* service is not queried.
C14_UnauthenticatedFetchRaises ==
    \A p \in Callers :
        (AfterGetSleepData(p) /\ ~loc[p].before)
        => /\ ret[p] = NotAuthenticatedError
           /\ loc[p].service = "none"
           /\ "sleep_list" \notin Range(log[p])

C14_Witness ==
    \E p \in Callers :
        /\ AfterGetSleepData(p) /\ ~loc[p].before
        /\ cli[p].garth = "bad" /\ "loads" \in Range(log[p])
        /\ ret[p].kind = "raise"

\* C15: on an authenticated client get_sleep_data returns absent, without
\* raising, when the service answers an empty list, a first record without
\* daily summary, or a summary lacking the start or the end timestamp; it
\* returns a record only when both timestamps are there.
C15_NoDataIsAbsent ==
    \A p \in Callers :
        (AfterGetSleepData(p) /\ loc[p].before)
        => /\ ret[p].kind = "return"
           /\ (\/ loc[p].service \in {"empty", "no_dto"}
               \/ loc[p].service = "dto"
                    /\ (loc[p].stamps[1] = 0 \/ loc[p].stamps[2] = 0))
              => ~loc[p].sleep_data.present
           /\ loc[p].sleep_data.present
              => /\ loc[p].service = "dto"
                 /\ loc[p].stamps[1] # 0 /\ loc[p].stamps[2] # 0

C15_Witness ==
    \E p \in Callers :
        /\ AfterGetSleepData(p) /\ loc[p].before
        /\ loc[p].service = "dto"
        /\ loc[p].stamps[1] # 0 /\ loc[p].stamps[2] = 0
        /\ ~loc[p].sleep_data.present /\ ret[p].kind = "return"

----------------------------------------------------------------------------
(* Properties of the formatter, checked under SpecFmt *)

Digit == <<"0", "1", "2", "3", "4", "5", "6", "7", "8", "9">>
TwoDigits(n) == Digit[(n \div 10) + 1] \o Digit[(n % 10) + 1]

\* what one slot of the entry shows for one time
Slot(t) ==
    IF t.some THEN TwoDigits(t.H) \o ":" \o TwoDigits(t.M) ELSE "shuju-queshi"

\* C16: for every entry date and every combination of present or absent
\* sleep and wake times format_sleep_entry returns
\* '<ISO date>: zuori-shuijiao <S> jintian-qichuang <W>', S and W being each
\* the zero-padded 24-hour HH:MM of its own time, or the placeholder when
\* that time is absent.
C16_EntryTemplate ==
    \A p \in Callers :
        (cli[p].flow = "formatter" /\ loc[p].fn = "format_sleep_entry")
        => LET r == loc[p].result
               e == loc[p].entry_date
           IN  /\ Len(r) = 10
               /\ r[1] = ToString(e.y) \o "-" \o TwoDigits(e.m) \o "-" \o TwoDigits(e.d)
               /\ <<r[2], r[3], r[4], r[5]>> = <<":", " ", "zuori-shuijiao", " ">>
               /\ r[6] = Slot(loc[p].sleep_time)
               /\ <<r[7], r[8], r[9]>> = <<" ", "jintian-qichuang", " ">>
               /\ r[10] = Slot(loc[p].wake_time)

C16_Witness ==
    \E p \in Callers :
        /\ cli[p].flow = "formatter" /\ loc[p].fn = "format_sleep_entry"
        /\ ~loc[p].sleep_time.some
        /\ loc[p].wake_time.some /\ loc[p].wake_time.H = 7 /\ loc[p].wake_time.M = 5
        /\ loc[p].result[6] = "shuju-queshi" /\ loc[p].result[10] = "07:05"

\* C17: determine_entry_date(sleep, wake) is the calendar date of wake for
\* every pair of times, sleep being on the day before wake or on the same
\* day; sleep has no influence.
C17_EntryDateIsWakeDate ==
    \A p \in Callers :
        (cli[p].flow = "formatter" /\ loc[p].fn = "determine_entry_date")
        => loc[p].result = [y |-> loc[p].wake_time.y, m |-> loc[p].wake_time.m,
                            d |-> loc[p].wake_time.d]

C17_Witness ==
    \E p \in Callers :
        /\ cli[p].flow = "formatter" /\ loc[p].fn = "determine_entry_date"
        /\ loc[p].sleep_time.d = 5 /\ loc[p].sleep_time.H = 23
        /\ loc[p].wake_time.d = 6 /\ loc[p].wake_time.H = 7
        /\ loc[p].result = [y |-> 2026, m |-> 1, d |-> 6]

----------------------------------------------------------------------------
(* Properties of both scripts, checked under SpecCli *)

ScriptRun(p) == QuickRun(p) \/ SleepRun(p)

\* what a dry run has done so far
DryRunState ==
    \A p \in Callers :
        (ScriptRun(p) /\ cli[p].dry_run)
        => /\ posted[p] = <<>>
           /\ seen[p].create_comment = NotAsked
           /\ \A i \in 1..Len(log[p]) :
                log[p][i] \notin {"create_comment", "create_issue"}
           /\ call[p].op \in {"none", "verify_issue_exists"}
           /\ SleepRun(p)
              => /\ \A i \in 1..Len(log[p]) : log[p][i] \notin TrackerOps
                 /\ call[p] = NoCall
                 /\ (loc[p].fetched /\ loc[p].sleep_data.present)
                    => /\ Done(p) /\ exit[p] = 0
                       /\ stdout[p] = <<<<"\n">> \o loc[p].formatted_entry>>
           /\ QuickRun(p)
              => (loc[p].verified \in {"missing", "exists"}
                    => Done(p) /\ exit[p] = 0)

\* a step of a dry run leaves the tracker as it was
DryRunStep ==
    \A p \in Callers :
        (/\ ScriptRun(p)' /\ cli'[p].dry_run
         /\ <<pc[p], log[p], cli[p]>> # <<pc'[p], log'[p], cli'[p]>>)
        => comments' = comments /\ issues' = issues

\* C18: with --dry-run neither script changes the issue tracker at any point
\* of the run: the sleep-fetch script returns after printing the formatted
\* entry without constructing or calling the tracker client, the quick-note
\* script calls neither create-issue nor create-comment whether or not the
\* issue exists, and these returns give exit code 0.
C18_DryRunNeverMutates == []DryRunState /\ [][DryRunStep]_vars

C18_Witness ==
    \E p \in Callers :
        /\ QuickRun(p) /\ cli[p].dry_run /\ Done(p)
        /\ loc[p].verified = "missing"
        /\ exit[p] = 0 /\ issues = <<>> /\ comments # <<>>
        /\ stdout[p] # <<>>

----------------------------------------------------------------------------
(* Properties of concurrent post_comment calls, checked under SpecRace *)

\* p listed the comments successfully and none of them held its date token
ListedNoDuplicate(p) ==
    /\ DefaultPost(p)
    /\ DateMatchAt(call[p].body) # 0
    /\ seen[p].get_comments = 200
    /\ \A i \in 1..Len(seen[p].listing) :
            ~Contains(seen[p].listing[i], DatePrefix(call[p].body))

\* the comments of the issue that hold the date token d
Holding(d) == {i \in 1..Len(comments) : Contains(comments[i], d)}

\* both callers listed before either created, with the same date token
BothListedFirst(p, q) ==
    /\ p # q
    /\ ListedNoDuplicate(p) /\ ListedNoDuplicate(q)
    /\ DatePrefix(call[p].body) = DatePrefix(call[q].body)

\* C19: when two concurrent default-mode post_comment calls on one issue,
\* their bodies carrying the same date token, both list the comments before
\* either has created one, neither finds a duplicate: neither returns false,
\* and once both create-comment round trips have succeeded both have returned
\* true and the issue holds two comments carrying that date token.
C19_BothListBeforeCreate ==
    \A p, q \in Callers :
        BothListedFirst(p, q)
        => /\ ret[p] # Return(FALSE) /\ ret[q] # Return(FALSE)
           /\ pc[p] \in {"create", "done"} /\ pc[q] \in {"create", "done"}
           /\ (seen[p].create_comment = 200 /\ seen[q].create_comment = 200)
              => /\ ret[p] = Return(TRUE) /\ ret[q] = Return(TRUE)
                 /\ Cardinality(Holding(DatePrefix(call[p].body))) = 2

\* the double post
C19_Witness ==
    \E p, q \in Callers :
        /\ BothListedFirst(p, q)
        /\ Done(p) /\ Done(q)
        /\ ret[p] = Return(TRUE) /\ ret[q] = Return(TRUE)
        /\ Len(comments) = Len(call[p].existing) + 2
        /\ Cardinality(Holding(<<"2026-01-06", ":">>)) = 2

----------------------------------------------------------------------------
(* Properties of sequential post_comment calls, checked under SpecSeq *)

\* the date tokens a comment holds, a date token being YYYY-MM-DD: (the date
\* with its colon)
DatesOf(c) == {d \in Dates : Contains(c, <<d, ":">>)}

\* C20: under strictly sequential use from an issue without comments, with
\* bodies each carrying a date token and every listing answering, while the
\* issue holds at most 10 comments no two of its comments contain the same
\* date token: the first call for a date returns true, every later call for
\* that date returns false and adds nothing.
C20_NoTwoCommentsShareDate ==
    /\ (Len(comments) <= WindowSize)
       => \A i, j \in 1..Len(comments) :
            i < j => DatesOf(comments[i]) \cap DatesOf(comments[j]) = {}
    /\ \A p \in Callers :
        (/\ Done(p) /\ DefaultPost(p) /\ NoRoundTripFailed(p)
         /\ DatesOf(call[p].body) # {}
         /\ Len(call[p].existing) <= WindowSize)
        => (ret[p] = Return(FALSE)
              <=> \E k \in 1..Len(call[p].existing) :
                    DatesOf(call[p].existing[k]) \cap DatesOf(call[p].body) # {})

\* the first "YYYY-MM-DD:" token of a comment, <<>> when it has none
FirstDateColon(c) == IF DateMatchAt(c) = 0 THEN <<>> ELSE DatePrefix(c)

\* C20 (amended): in such a sequence, while the issue holds at most 10
\* comments, no two comments share their first "YYYY-MM-DD:" token (date and
\* colon); a call whose body has such a token returns false and adds nothing
\* when a comment already on the issue contains that token, and otherwise
\* posts and returns true when its round trips succeed.
C20_NoTwoCommentsShareDateColon ==
    /\ (Len(comments) <= WindowSize)
       => \A i, j \in 1..Len(comments) :
            (i < j /\ FirstDateColon(comments[i]) # <<>>)
            => FirstDateColon(comments[i]) # FirstDateColon(comments[j])
    /\ \A p \in Callers :
        (/\ Done(p) /\ DefaultPost(p) /\ NoRoundTripFailed(p)
         /\ DateMatchAt(call[p].body) # 0
         /\ Len(call[p].existing) <= WindowSize)
        => IF \E k \in 1..Len(call[p].existing) :
                Contains(call[p].existing[k], DatePrefix(call[p].body))
           THEN /\ ret[p] = Return(FALSE)
                /\ comments = call[p].existing
                /\ seen[p].create_comment = NotAsked
           ELSE /\ ret[p] = Return(TRUE)
                /\ comments = Append(call[p].existing, posted[p])

C20_Witness ==
    \E p \in Callers :
        /\ Done(p) /\ DefaultPost(p)
        /\ ret[p] = Return(FALSE)
        /\ Len(comments) = 2
        /\ FirstDateColon(comments[1]) = <<"2026-01-06", ":">>
        /\ FirstDateColon(comments[2]) = <<"2026-01-07", ":">>
        /\ DatePrefix(call[p].body) = <<"2026-01-06", ":">>

----------------------------------------------------------------------------
(* Further properties of scripts/fetch_and_post.py, checked under SpecSleep *)

\* the run of p has reached the issue tracker
ReachedTracker(p) ==
    \/ \E i \in 1..Len(log[p]) :
            log[p][i] \in {"get_repo", "get_issue", "get_comments", "create_comment"}
    \/ call[p] # NoCall
    \/ pc[p] \in {"get_repo", "verify", "get_issue", "list", "create"}

\* C21: a sleep-fetch run reaches the issue tracker (issue lookup, comment
\* listing, create-comment) only when a session token was supplied and
\* restored; a run without token, or with a token that fails to restore, ends
\* with exit code 1 and never posts a comment.
C21_TrackerOnlyWhenAuthenticated ==
    \A p \in Callers :
        SleepRun(p)
        => /\ ReachedTracker(p) => cli[p].garth = "good"
           /\ cli[p].garth # "good"
              => /\ Done(p) /\ exit[p] = 1
                 /\ posted[p] = <<>>
                 /\ seen[p].create_comment = NotAsked

C21_Witness ==
    \E p \in Callers :
        /\ SleepRun(p) /\ cli[p].garth = "bad" /\ cli[p].dumps_ok
        /\ ~cli[p].dry_run /\ cli[p].github_token /\ loc[p].repo # ""
        /\ log[p] = <<"configure", "loads", "dumps">>
        /\ Done(p) /\ exit[p] = 1

----------------------------------------------------------------------------
(* Properties of quick_note.calculate_child_age, checked under SpecAge *)

\* a is on or before b
DateLE(a, b) ==
    \/ a.y < b.y
    \/ a.y = b.y /\ a.m < b.m
    \/ a.y = b.y /\ a.m = b.m /\ a.d <= b.d

\* C23: for every valid birthdate on or before today calculate_child_age
\* computes years >= 0, 0 <= months <= 11 and days >= 0 (no negative day
\* count after borrowing from the previous month), and the returned string
\* holds the day component whenever days > 0.
C23_AgeComponentsInRange ==
    \A p \in Callers :
        (/\ cli[p].flow = "age" /\ loc[p].fn = "calculate_child_age"
         /\ DateLE(loc[p].birthday, loc[p].today))
        => /\ loc[p].age.years >= 0
           /\ loc[p].age.months >= 0 /\ loc[p].age.months <= 11
           /\ loc[p].age.days >= 0
           /\ loc[p].age.days > 0
              => loc[p].result[Len(loc[p].result)]
                    = ToString(loc[p].age.days) \o "tian"

----------------------------------------------------------------------------
(* Further properties of sequential post_comment calls, checked under SpecSeq *)

\* the body of p's call holds no YYYY-MM-DD: token
NoDateToken(p) == DefaultPost(p) /\ DatesOf(call[p].body) = {}

\* C22: a default-mode post_comment whose body holds no date token of the
\* shape YYYY-MM-DD: treats nothing as a duplicate: the comments are not
\* listed, and with its round trips succeeding the call posts and returns
\* true whatever the issue holds, each repetition of the body adding one more
\* comment.
C22_NoDateTokenAlwaysPosts ==
    \A p \in Callers :
        NoDateToken(p)
        => /\ seen[p].get_comments = NotAsked
           /\ "get_comments" \notin Range(log[p])
           /\ ret[p] # Return(FALSE)
           /\ (Done(p) /\ NoRoundTripFailed(p))
              => /\ ret[p] = Return(TRUE)
                 /\ comments = Append(call[p].existing, posted[p])
                 /\ Take(posted[p], Len(call[p].body)) = call[p].body

C22_Witness ==
    \E p \in Callers :
        /\ NoDateToken(p) /\ Done(p) /\ ret[p] = Return(TRUE)
        /\ call[p].body = <<"2026-01-06", " ", "10:00:00 - note">>
        /\ Len(comments) = 3
        /\ \A i \in 1..3 : Take(comments[i], 3) = call[p].body

====
